---- MODULE Spec2Model ----
(***************************************************************************)
(* Model of the file-open pipeline of src-tauri/src/main.rs: the setup     *)
(* closure that scans the launch arguments, the thread it spawns to emit   *)
(* the "open-pdf-file" event after a fixed sleep, and the open_file_path   *)
(* command.  The window manager, the frontend, the stream behind stderr    *)
(* and the OS thread limit are the environment.                            *)
(*                                                                         *)
(* Strings are sequences of one-character strings, so that starts_with and *)
(* ends_with are computed on the characters.  Rust's args[1] is args[2]    *)
(* here (sequences are 1-based).                                           *)
(***************************************************************************)
EXTENDS Integers, Sequences, FiniteSets, TLC

VARIABLES args, fs, app, thread, windows, surface, emitted, stderr, cmds,
          surfaceAtAccept, openEvents, stderrOk, canSpawn, setup

vars == <<args, fs, app, thread, windows, surface, emitted, stderr, cmds,
          surfaceAtAccept, openEvents, stderrOk, canSpawn, setup>>

\* ---------------------------------------------------------------- bounds
\* Longest argument list, argument[0] included.
MaxArgs == 3
\* Granularity with which the passing of time during the sleep is observed.
TickMillis == 500
\* Number of open_file_path invocations explored.
MaxCalls == 2
\* Number of open-document requests the OS sends to the running application.
MaxOpenEvents == 1

\* ------------------------------------------------------ program constants
\* std::time::Duration::from_millis(1000)
SleepMillis == 1000

\* The flag marker tested by starts_with('-').
Dash == "-"

\* The suffix tested by ends_with(".pdf").
PdfExt == <<".", "p", "d", "f">>

\* The event name given to window.emit.
EventName == "open-pdf-file"

\* The label given to get_webview_window.
MainLabel == "main"

\* --------------------------------------------------------------- inputs
\* A unit of an OS argument that is not valid Unicode.
BadByte == "\\xFF"

ProgPath == <<"a", "p", "p">>
TokEmpty == <<>>
TokFlag == <<"-", "v">>
TokFlagPdf == <<"-", ".", "p", "d", "f">>
TokPdf == <<"a", ".", "p", "d", "f">>
TokTxt == <<"b", ".", "t", "x", "t">>
TokUpper == <<"a", ".", "P", "D", "F">>
TokShort == <<"p", "d", "f">>
TokBad == <<BadByte, ".", "p", "d", "f">>

\* The tokens that can follow argument[0].
Tokens == {TokEmpty, TokFlag, TokFlagPdf, TokPdf, TokTxt, TokUpper, TokShort, TokBad}

\* The paths that may exist on disk (the empty path never exists).
MayExist == {TokFlag, TokPdf, TokTxt}

\* The paths the OS may ask the running application to open.
LatePaths == {TokPdf}

\* The strings a frontend may pass to open_file_path.
CmdPaths == {TokEmpty, TokPdf, TokFlag}

\* Window labels the window manager may hold.
Labels == {MainLabel, "other"}

RECURSIVE SeqsUpTo(_, _)
\* The sequences over S of length at most n.
SeqsUpTo(S, n) ==
    IF n = 0 THEN {<<>>}
    ELSE LET shorter == SeqsUpTo(S, n - 1)
         IN  shorter \cup {Append(s, x) : s \in {t \in shorter : Len(t) = n - 1}, x \in S}

\* The tokens that can follow args[1]; the program only decodes them.
LaterTokens == {TokFlag, TokPdf, TokTxt, TokBad}

\* The argument lists the OS may start the process with: argument[0]
\* alone, or argument[0], any token and up to MaxArgs - 2 later tokens.
ArgLists ==
    {<<ProgPath>>}
        \cup {<<ProgPath, t>> \o rest : t \in Tokens, rest \in SeqsUpTo(LaterTokens, MaxArgs - 2)}

\* ------------------------------------------------------- pure functions
\* str::starts_with(char)
starts_with(s, c) == Len(s) >= 1 /\ s[1] = c

\* str::ends_with(&str)
ends_with(s, suffix) ==
    /\ Len(s) >= Len(suffix)
    /\ SubSeq(s, Len(s) - Len(suffix) + 1, Len(s)) = suffix

\* std::path::Path::new(p).exists() on a disk holding `files`
path_exists(p, files) == p \in files

\* Whether an OS argument decodes to a String.
IsUnicode(s) == \A i \in 1..Len(s) : s[i] # BadByte

\* std::env::args().collect(): the iterator panics on an argument that is
\* not valid Unicode, wherever it stands.
ArgsCollect(a) == IF \A i \in 1..Len(a) : IsUnicode(a[i]) THEN "ok" ELSE "panic"

file_path_first_non_flag(a) ==
    LET nonFlag == {i \in 2..Len(a) : ~starts_with(a[i], Dash)}
    IN  IF nonFlag = {} THEN a[2]
        ELSE a[CHOOSE i \in nonFlag : \A j \in nonFlag : i <= j]
\* let file_path = &args[1];
file_path(a) == a[2]

qualifies_always(is_pdf, exists) == TRUE
qualifies_and(is_pdf, exists) == is_pdf /\ exists
\* if is_pdf || path_exists
qualifies(is_pdf, exists) == is_pdf \/ exists

not_flag_always(p) == TRUE
\* if !file_path.starts_with('-')
not_flag(p) == ~starts_with(p, Dash)

\* The candidates the setup closure hands to a new thread: the empty
\* sequence or one path.
ScanArgs(a, files) ==
    IF Len(a) > 1
    THEN IF not_flag(file_path(a))
         THEN IF qualifies(ends_with(file_path(a), PdfExt), path_exists(file_path(a), files))
              THEN <<file_path(a)>>
              ELSE <<>>
         ELSE <<>>
    ELSE <<>>

\* The value the setup closure returns: Ok(()) on every path.
SetupResult(a, files) == "Ok"

\* app_handle.get_webview_window(label)
get_webview_window(ws, label) == IF label \in ws THEN "Some" ELSE "None"

open_file_path_emits(p) == [result |-> "Ok", emits |-> <<p>>]
\* async fn open_file_path(_file_path: String) -> Result<(), String>:
\* its result and the payloads it emits.
open_file_path(p) == [result |-> "Ok", emits |-> <<>>]

\* eprintln!(..): the line is written, or the macro panics when the write
\* to stderr fails (a pipe whose reader has gone, a full device).
eprintln(writable) == IF writable THEN "written" ELSE "panic"

\* std::thread::spawn: panics when the OS cannot create the thread.
thread_spawn(available) == IF available THEN "spawned" ELSE "panic"

\* The thread before any spawn.  lookups and emits count its calls of
\* get_webview_window and window.emit.
NoThread == [pc |-> "none", file_path_clone |-> <<>>, slept |-> 0,
             lookups |-> 0, emits |-> 0]

SpawnedThread_joined(p) ==
    [pc |-> "done", file_path_clone |-> p, slept |-> SleepMillis, lookups |-> 1, emits |-> 0]
\* std::thread::spawn(move || ..): the new thread, about to sleep, holding
\* file_path_clone; the handle is dropped, so setup does not wait for it.
SpawnedThread(p) ==
    [pc |-> "sleeping", file_path_clone |-> p, slept |-> 0, lookups |-> 0, emits |-> 0]

\* Where the thread goes after the match on window.emit(..): the closure
\* ends.
EmitNext == "done"

\* Where the thread goes after the else branch ("Window 'main' not found"):
\* the closure ends.
MissingNext == "done"

\* Where the thread goes when one of its eprintln! panics: the panic
\* unwinds the closure and ends the thread; the process goes on.
PanicNext == "panicked"

\* The event window.emit delivers, stamped with the state of the display
\* surface at that moment.
Event(name, payload) == [event |-> name, payload |-> payload, surface |-> surface]

\* ---------------------------------------------------------------- state
\* args: the process arguments; fs: the paths on disk; app: the process;
\* thread: the spawned thread (position, captured path, time slept);
\* windows: the labels get_webview_window can find; surface: whether the
\* frontend of window "main" is ready; emitted: the events delivered;
\* stderr: the diagnostics printed; cmds: the results of open_file_path;
\* surfaceAtAccept: the surface state when the candidate was accepted;
\* openEvents: the open-document requests the OS sent after startup, each
\* with the number of events emitted before it; stderrOk: whether a write
\* to stderr succeeds; canSpawn: whether the OS grants a new thread;
\* setup: the statement the setup closure is at.
TypeOK ==
    /\ args \in ArgLists
    /\ fs \subseteq MayExist
    /\ app \in {"starting", "running", "panicked"}
    /\ setup \in {"collect", "print_args", "print_path", "print_is_pdf", "spawn", "returned"}
    /\ thread.pc \in {"none", "sleeping", "announce", "lookup", "emit", "report_missing",
                      "report_ok", "report_err", "done", "panicked"}
    /\ thread.lookups \in 0..1
    /\ thread.emits \in 0..1
    /\ thread.file_path_clone \in Tokens
    /\ thread.slept \in 0..(SleepMillis + TickMillis)
    /\ windows \subseteq Labels
    /\ surface \in {"NotReady", "Ready"}
    /\ \A i \in 1..Len(emitted) :
          emitted[i].surface \in {"NotReady", "Ready"} /\ emitted[i].payload \in Tokens
    /\ Len(stderr) <= 6
    /\ Len(cmds) <= MaxCalls
    /\ surfaceAtAccept \in {"none", "NotReady", "Ready"}
    /\ Len(openEvents) <= MaxOpenEvents
    /\ \A i \in 1..Len(openEvents) : openEvents[i].path \in LatePaths
    /\ stderrOk \in BOOLEAN
    /\ canSpawn \in BOOLEAN

Init ==
    /\ args \in ArgLists
    /\ fs \in SUBSET MayExist
    /\ app = "starting"
    /\ setup = "collect"
    /\ thread = NoThread
    /\ windows = {}
    /\ surface = "NotReady"
    /\ emitted = <<>>
    /\ stderr = <<>>
    /\ cmds = <<>>
    /\ surfaceAtAccept = "none"
    /\ openEvents = <<>>
    /\ stderrOk \in BOOLEAN
    /\ canSpawn \in BOOLEAN

\* The setup closure, run once by the builder; .run(..).expect(..) turns an
\* Err of the closure into a panic, and a panic inside it ends the process.
\* setup is the statement the closure is at; a panic leaves it there.
\* Each eprintln! is a step of its own: the write can wait, and it panics
\* when stderr cannot be written.

\* let args: Vec<String> = std::env::args().collect();
SetupCollect ==
    /\ app = "starting"
    /\ setup = "collect"
    /\ IF ArgsCollect(args) = "panic"
       THEN app' = "panicked" /\ UNCHANGED setup
       ELSE setup' = "print_args" /\ UNCHANGED app
    /\ UNCHANGED <<args, fs, thread, windows, surface, emitted, stderr, cmds,
                   surfaceAtAccept, openEvents, stderrOk, canSpawn>>

\* eprintln!("Command line args: {:?}", args); if args.len() > 1
SetupPrintArgs ==
    /\ app = "starting"
    /\ setup = "print_args"
    /\ IF eprintln(stderrOk) = "panic"
       THEN app' = "panicked" /\ UNCHANGED <<setup, stderr>>
       ELSE /\ stderr' = Append(stderr, "Command line args")
            /\ IF Len(args) > 1
               THEN setup' = "print_path" /\ UNCHANGED app
               ELSE /\ setup' = "returned"
                    /\ app' = IF SetupResult(args, fs) = "Ok" THEN "running" ELSE "panicked"
    /\ UNCHANGED <<args, fs, thread, windows, surface, emitted, cmds,
                   surfaceAtAccept, openEvents, stderrOk, canSpawn>>

\* let file_path = &args[1]; eprintln!("Processing file path: {}", ..);
\* if !file_path.starts_with('-')
SetupPrintPath ==
    /\ app = "starting"
    /\ setup = "print_path"
    /\ IF eprintln(stderrOk) = "panic"
       THEN app' = "panicked" /\ UNCHANGED <<setup, stderr>>
       ELSE /\ stderr' = Append(stderr, "Processing file path")
            /\ IF not_flag(file_path(args))
               THEN setup' = "print_is_pdf" /\ UNCHANGED app
               ELSE /\ setup' = "returned"
                    /\ app' = IF SetupResult(args, fs) = "Ok" THEN "running" ELSE "panicked"
    /\ UNCHANGED <<args, fs, thread, windows, surface, emitted, cmds,
                   surfaceAtAccept, openEvents, stderrOk, canSpawn>>

\* let is_pdf = ..; let path_exists = ..; eprintln!("Is PDF: {}, Path
\* exists: {}", ..); if is_pdf || path_exists
SetupPrintIsPdf ==
    /\ app = "starting"
    /\ setup = "print_is_pdf"
    /\ IF eprintln(stderrOk) = "panic"
       THEN app' = "panicked" /\ UNCHANGED <<setup, stderr, surfaceAtAccept>>
       ELSE /\ stderr' = Append(stderr, "Is PDF, Path exists")
            /\ IF ScanArgs(args, fs) # <<>>
               THEN /\ setup' = "spawn"
                    /\ surfaceAtAccept' = surface
                    /\ UNCHANGED app
               ELSE /\ setup' = "returned"
                    /\ app' = IF SetupResult(args, fs) = "Ok" THEN "running" ELSE "panicked"
                    /\ UNCHANGED surfaceAtAccept
    /\ UNCHANGED <<args, fs, thread, windows, surface, emitted, cmds,
                   openEvents, stderrOk, canSpawn>>

\* let app_handle = ..; let file_path_clone = ..; std::thread::spawn(..);
\* then Ok(()).  spawn panics when the OS grants no thread.
SetupSpawn ==
    /\ app = "starting"
    /\ setup = "spawn"
    /\ IF thread_spawn(canSpawn) = "panic"
       THEN app' = "panicked" /\ UNCHANGED <<setup, thread>>
       ELSE /\ thread' = SpawnedThread(ScanArgs(args, fs)[1])
            /\ setup' = "returned"
            /\ app' = IF SetupResult(args, fs) = "Ok" THEN "running" ELSE "panicked"
    /\ UNCHANGED <<args, fs, windows, surface, emitted, stderr, cmds, surfaceAtAccept,
                   openEvents, stderrOk, canSpawn>>

\* Time passing while the thread is in std::thread::sleep.
SleepTick ==
    /\ thread.pc = "sleeping"
    /\ thread.slept < SleepMillis
    /\ thread' = [thread EXCEPT !.slept = @ + TickMillis]
    /\ UNCHANGED <<args, fs, app, setup, windows, surface, emitted, stderr, cmds,
                   surfaceAtAccept, openEvents, stderrOk, canSpawn>>

\* The sleep returns once at least SleepMillis have passed.
Wake ==
    /\ thread.pc = "sleeping"
    /\ thread.slept >= SleepMillis
    /\ thread' = [thread EXCEPT !.pc = "announce"]
    /\ UNCHANGED <<args, fs, app, setup, windows, surface, emitted, stderr, cmds,
                   surfaceAtAccept, openEvents, stderrOk, canSpawn>>

\* eprintln!("Attempting to emit event for: {}", file_path_clone);
Announce ==
    /\ thread.pc = "announce"
    /\ IF eprintln(stderrOk) = "written"
       THEN /\ thread' = [thread EXCEPT !.pc = "lookup"]
            /\ stderr' = Append(stderr, "Attempting to emit event")
       ELSE /\ thread' = [thread EXCEPT !.pc = PanicNext]
            /\ UNCHANGED stderr
    /\ UNCHANGED <<args, fs, app, setup, windows, surface, emitted, cmds,
                   surfaceAtAccept, openEvents, stderrOk, canSpawn>>

\* if let Some(window) = app_handle.get_webview_window("main") ... else
GetWindow ==
    /\ thread.pc = "lookup"
    /\ thread' = [thread EXCEPT
                     !.pc = IF get_webview_window(windows, MainLabel) = "Some"
                            THEN "emit" ELSE "report_missing",
                     !.lookups = @ + 1]
    /\ UNCHANGED <<args, fs, app, setup, windows, surface, emitted, stderr, cmds,
                   surfaceAtAccept, openEvents, stderrOk, canSpawn>>

\* else { eprintln!("Window 'main' not found"); }
ReportMissing ==
    /\ thread.pc = "report_missing"
    /\ IF eprintln(stderrOk) = "written"
       THEN /\ thread' = [thread EXCEPT !.pc = MissingNext]
            /\ stderr' = Append(stderr, "Window 'main' not found")
       ELSE /\ thread' = [thread EXCEPT !.pc = PanicNext]
            /\ UNCHANGED stderr
    /\ UNCHANGED <<args, fs, app, setup, windows, surface, emitted, cmds,
                   surfaceAtAccept, openEvents, stderrOk, canSpawn>>

\* match window.emit("open-pdf-file", &file_path_clone): the call returns
\* Ok once the event is delivered, or Err.
Emit ==
    /\ thread.pc = "emit"
    /\ \E outcome \in {"Ok", "Err"} :
          /\ emitted' = IF outcome = "Ok"
                        THEN Append(emitted, Event(EventName, thread.file_path_clone))
                        ELSE emitted
          /\ thread' = [thread EXCEPT
                           !.pc = IF outcome = "Ok" THEN "report_ok" ELSE "report_err",
                           !.emits = @ + 1]
    /\ UNCHANGED <<args, fs, app, setup, windows, surface, stderr, cmds,
                   surfaceAtAccept, openEvents, stderrOk, canSpawn>>

\* Ok(_) => eprintln!("Successfully emitted open-pdf-file event"),
\* Err(e) => eprintln!("Error emitting event: {:?}", e),
ReportEmit ==
    /\ thread.pc \in {"report_ok", "report_err"}
    /\ IF eprintln(stderrOk) = "written"
       THEN /\ stderr' = Append(stderr, IF thread.pc = "report_ok"
                                        THEN "Successfully emitted open-pdf-file event"
                                        ELSE "Error emitting event")
            /\ thread' = [thread EXCEPT !.pc = EmitNext]
       ELSE /\ UNCHANGED stderr
            /\ thread' = [thread EXCEPT !.pc = PanicNext]
    /\ UNCHANGED <<args, fs, app, setup, windows, surface, emitted, cmds,
                   surfaceAtAccept, openEvents, stderrOk, canSpawn>>

\* The window manager registers a webview window.
CreateWindow ==
    /\ app # "panicked"
    /\ \E l \in Labels \ windows : windows' = windows \cup {l}
    /\ UNCHANGED <<args, fs, app, setup, thread, surface, emitted, stderr, cmds, surfaceAtAccept, openEvents, stderrOk, canSpawn>>

\* The frontend of window "main" has loaded and listens for the event.
SurfaceReady ==
    /\ app # "panicked"
    /\ MainLabel \in windows
    /\ surface = "NotReady"
    /\ surface' = "Ready"
    /\ UNCHANGED <<args, fs, app, setup, thread, windows, emitted, stderr, cmds, surfaceAtAccept, openEvents, stderrOk, canSpawn>>

\* A frontend invokes the open_file_path command.
OpenFilePath ==
    /\ app = "running"
    /\ windows # {}
    /\ Len(cmds) < MaxCalls
    /\ \E p \in CmdPaths :
          /\ cmds' = Append(cmds, open_file_path(p).result)
          /\ emitted' = emitted \o [i \in 1..Len(open_file_path(p).emits) |->
                                       Event(EventName, open_file_path(p).emits[i])]
    /\ UNCHANGED <<args, fs, app, setup, thread, windows, surface, stderr, surfaceAtAccept, openEvents, stderrOk, canSpawn>>

\* The OS asks the running application to open a document.  The builder is
\* run with .run(context), which installs no handler for run events, and
\* open_file_path is the only handler registered: nothing reacts.
OpenEvent ==
    /\ app = "running"
    /\ Len(openEvents) < MaxOpenEvents
    /\ \E p \in LatePaths :
          openEvents' = Append(openEvents, [path |-> p, emittedBefore |-> Len(emitted)])
    /\ UNCHANGED <<args, fs, app, setup, thread, windows, surface, emitted, stderr, cmds,
                   surfaceAtAccept, stderrOk, canSpawn>>

\* Writes to stderr start to fail: the reader of the pipe behind fd 2 goes
\* away, or the device fills up.
StderrBreaks ==
    /\ stderrOk
    /\ stderrOk' = FALSE
    /\ UNCHANGED <<args, fs, app, setup, thread, windows, surface, emitted, stderr, cmds,
                   surfaceAtAccept, openEvents, canSpawn>>

Next ==
    \/ SetupCollect
    \/ SetupPrintArgs
    \/ SetupPrintPath
    \/ SetupPrintIsPdf
    \/ SetupSpawn
    \/ SleepTick
    \/ Wake
    \/ Announce
    \/ GetWindow
    \/ ReportMissing
    \/ Emit
    \/ ReportEmit
    \/ CreateWindow
    \/ SurfaceReady
    \/ OpenFilePath
    \/ OpenEvent
    \/ StderrBreaks

Spec == Init /\ [][Next]_vars

\* The steps of the spawned thread.
ThreadStep ==
    SleepTick \/ Wake \/ Announce \/ GetWindow \/ ReportMissing \/ Emit \/ ReportEmit

\* The OS keeps scheduling the spawned thread, and its sleep, lookup and
\* emit each return.
FairSpec == Spec /\ WF_vars(ThreadStep)

\* ------------------------------------------------ vocabulary of the claims
\* The token begins with the flag marker.
BeginsWithDash(t) == Len(t) > 0 /\ t[1] = "-"

\* The token ends with the supported extension.
HasPdfSuffix(t) ==
    /\ Len(t) >= 4
    /\ t[Len(t) - 3] = "."
    /\ t[Len(t) - 2] = "p"
    /\ t[Len(t) - 1] = "d"
    /\ t[Len(t)] = "f"

\* The token passes validation: not a flag, and a .pdf name or an existing path.
ValidCandidate(t) == ~BeginsWithDash(t) /\ (HasPdfSuffix(t) \/ t \in fs)

\* The positions after argument[0] holding a token that is not a flag.
NonFlagPositions == {i \in 2..Len(args) : ~BeginsWithDash(args[i])}

\* The first token after argument[0] that is not a flag (when there is one).
FirstNonFlag == args[CHOOSE i \in NonFlagPositions : \A j \in NonFlagPositions : i <= j]

\* The thread has ended, by reaching the end of its closure or by a panic.
ThreadEnded == thread.pc \in {"done", "panicked"}

\* The setup closure has judged args[1]: it took the flag test and, for a
\* token that is not a flag, the test on is_pdf and path_exists.  (A
\* closure that panicked at an eprintln! before that never judged it.)
Decided == Len(args) > 1 /\ setup \in {"spawn", "returned"}

\* The setup closure found args[1] to pass both tests and went on to the
\* spawn.
AcceptedByScanner == surfaceAtAccept # "none"

\* The thread reported that window.emit failed.
EmitFailed == \E i \in 1..Len(stderr) : stderr[i] = "Error emitting event"

\* The thread reported that it found no window "main".
WindowMissing == \E i \in 1..Len(stderr) : stderr[i] = "Window 'main' not found"

\* ---------------------------------------------------------------- claims
\* C1: no "open-pdf-file" emission occurs while the display surface is
\* NotReady.  (Stated as claimed; the thread emits as soon as the window
\* "main" exists, whether or not its frontend is ready.)
C1_NoEmissionWhileNotReady ==
    \A i \in 1..Len(emitted) : emitted[i].surface = "Ready"

\* C2: a candidate accepted before the display surface is ready is never
\* lost: when the dispatch attempt finds no window the request is held or
\* retried, so once the surface is ready the request is emitted or still
\* being worked on.  (Stated as claimed; the thread ends after one lookup.)
C2_RequestHeldUntilReady ==
    (surfaceAtAccept = "NotReady" /\ WindowMissing /\ surface = "Ready")
        => \/ ~ThreadEnded
           \/ \E i \in 1..Len(emitted) : emitted[i].payload = thread.file_path_clone

\* C3: at most one emission per accepted candidate, and in the scenario of
\* a launch with one argument naming an existing .pdf file and a surface
\* that becomes ready, exactly one event is emitted.  (Stated as claimed,
\* for runs in which window.emit itself does not fail.)
C3_ExactlyOneForExistingPdf ==
    /\ Len(emitted) <= 1
    /\ (/\ Len(args) = 2
        /\ HasPdfSuffix(args[2])
        /\ args[2] \in fs
        /\ thread.pc = "done"
        /\ surface = "Ready"
        /\ ~EmitFailed)
           => Len(emitted) = 1

\* C4: every emission is named "open-pdf-file" and carries exactly the
\* launch argument that validation accepted.
C4_PayloadIsAcceptedCandidate ==
    \A i \in 1..Len(emitted) :
        /\ emitted[i].event = "open-pdf-file"
        /\ Len(args) > 1
        /\ emitted[i].payload = args[2]
        /\ ValidCandidate(emitted[i].payload)

C4_Witness ==
    /\ Len(emitted) = 1
    /\ emitted[1].payload = TokTxt
    /\ thread.pc = "done"

\* C5: an argument list with no non-flag token after argument[0] yields no
\* candidate: no thread is started and nothing is ever emitted.
C5_NoCandidateWithoutNonFlag ==
    NonFlagPositions = {} => (thread.pc = "none" /\ emitted = <<>>)

C5_Witness ==
    /\ app = "running"
    /\ Len(args) = 3
    /\ NonFlagPositions = {}
    /\ args[2] = TokFlagPdf
    /\ surface = "Ready"

\* C6: when the first non-flag token, wherever it stands in the list, is
\* valid, the scanner yields exactly that token as its candidate.  (Stated
\* as claimed; the scanner looks at the token after argument[0] only.)
C6_FirstNonFlagIsCandidate ==
    (app = "running" /\ NonFlagPositions # {} /\ ValidCandidate(FirstNonFlag))
        => (thread.pc # "none" /\ thread.file_path_clone = FirstNonFlag)

\* C7: the examined token is accepted if and only if it does not begin
\* with '-' and (ends with ".pdf" or exists); a rejected token gives no
\* candidate and no event.
\* The token is examined once the closure has judged it, and accepted
\* when the closure went on to the spawn for it.
C7_AcceptedIffValid ==
    /\ Decided => (AcceptedByScanner <=> ValidCandidate(args[2]))
    /\ AcceptedByScanner => (Len(args) > 1 /\ ValidCandidate(args[2]))
    /\ thread.pc # "none" => thread.file_path_clone = args[2]
    /\ (Len(args) > 1 /\ ~ValidCandidate(args[2]))
          => (thread.pc = "none" /\ emitted = <<>>)

C7_Witness ==
    /\ app = "running"
    /\ Len(args) > 1
    /\ BeginsWithDash(args[2])
    /\ args[2] \in fs
    /\ thread.pc = "none"
    /\ surface = "Ready"

\* C8: open_file_path returns Ok for every input, and an invocation
\* changes nothing else: no emission, no change to the thread, the
\* surface, the windows or the application.
C8_CommandIsNoOp ==
    /\ [](\A i \in 1..Len(cmds) : cmds[i] = "Ok")
    /\ [][cmds' # cmds =>
            UNCHANGED <<emitted, thread, surface, windows, app, stderr>>]_vars

C8_Witness ==
    /\ Len(cmds) = MaxCalls
    /\ thread.pc = "sleeping"
    /\ surface = "NotReady"

\* C9: no error condition ends the process or fails startup: the setup
\* step completes for every argument list.  (Stated as claimed; collecting
\* the arguments panics on one that is not valid Unicode, each eprintln!
\* panics when stderr cannot be written, and the spawn panics when the OS
\* grants no thread.)
C9_SetupNeverFails == app # "panicked"

\* C10: a candidate accepted before readiness is delivered once readiness
\* occurs: exactly one notification fires and it carries that candidate.
\* (Stated as claimed for the one candidate a launch can give, for runs in
\* which window.emit itself does not fail.)
C10_OneNotificationAfterReadiness ==
    (/\ surfaceAtAccept = "NotReady"
     /\ surface = "Ready"
     /\ thread.pc = "done"
     /\ ~EmitFailed)
        => (Len(emitted) = 1 /\ emitted[1].payload = thread.file_path_clone)

\* C11: after a request has been delivered the dispatcher is re-armed: a
\* new valid candidate arriving while the application runs produces
\* exactly one further notification, so once it has arrived the further
\* notification has fired or the thread is still at work on one.  (Stated
\* as claimed; nothing in the program takes up a later request.)
C11_RearmedAfterDelivery ==
    \A i \in 1..Len(openEvents) :
        (openEvents[i].emittedBefore >= 1 /\ ValidCandidate(openEvents[i].path))
            => \/ thread.pc \notin {"none", "done", "panicked"}
               \/ Len(emitted) = openEvents[i].emittedBefore + 1

\* C12: the scanner examines only the token right after argument[0]: when
\* that token is a flag or fails validation there is no candidate whatever
\* the later tokens are, and only that token is ever captured or emitted.
C12_OnlyFirstTokenExamined ==
    /\ (Len(args) > 2 /\ ~ValidCandidate(args[2]))
          => (thread.pc = "none" /\ emitted = <<>>)
    /\ thread.pc # "none" => thread.file_path_clone = args[2]
    /\ \A i \in 1..Len(emitted) : emitted[i].payload = args[2]

C12_Witness ==
    /\ app = "running"
    /\ Len(args) = 3
    /\ ~ValidCandidate(args[2])
    /\ ValidCandidate(args[3])
    /\ thread.pc = "none"
    /\ surface = "Ready"
    /\ emitted = <<>>

\* C13: the wait runs only on the spawned thread: every step of the setup
\* closure emits nothing and leaves the thread unstarted or at the start
\* of its sleep, the thread's steps never involve the main sequence, and
\* every emission is a step of the thread from its emit position.
C13_WaitOnlyOnSpawnedThread ==
    /\ [][(setup' # setup \/ app' # app)
            => /\ emitted' = emitted
               /\ thread'.pc \in {"none", "sleeping"}
               /\ thread'.slept = 0]_vars
    /\ [][(thread.pc # "none" /\ thread' # thread)
            => (app' = app /\ setup' = setup)]_vars
    /\ [][emitted' # emitted
            => /\ thread.pc = "emit"
               /\ thread'.pc = "report_ok"
               /\ thread.slept >= SleepMillis
               /\ app' = app
               /\ setup' = setup]_vars

C13_Witness ==
    /\ app = "running"
    /\ thread.pc = "sleeping"
    /\ thread.slept = 0
    /\ emitted = <<>>
    /\ Len(openEvents) = 1

\* C14: at most one thread is started in a run, it is started if and only
\* if the launch argument was accepted, and at most one event is emitted
\* in the whole run.  (Stated as claimed; an accepted candidate gets no
\* thread when std::thread::spawn panics.)
C14_OneThreadIffAccepted ==
    /\ Len(emitted) <= 1
    /\ app # "starting" => ((thread.pc # "none") <=> AcceptedByScanner)

\* C15: the thread terminates in every execution: after its single delay
\* it looks the window up once, then emits once (with success or an error)
\* or reports the window missing, and ends.  (Stated as claimed, for the
\* thread that has ended; a failed write to stderr ends it earlier.)
C15_ThreadChecksOnceThenEnds ==
    ThreadEnded => (thread.lookups = 1 /\ (thread.emits = 1 \/ WindowMissing))

====
